---- MODULE Spec2Model ----
(***************************************************************************)
(* The request flow of the field-agent portal's server: the bearer-token   *)
(* middleware authenticateToken (server/auth.ts, in its two builds: the    *)
(* one that falls back to a Supabase-only identity when the user directory *)
(* fails, and the one that answers 503), requireManager, the routes of     *)
(* server/routes.ts and the DatabaseStorage operations behind them.        *)
(*                                                                         *)
(* Every await of the code is a step boundary: a request is a process that *)
(* moves through the provider call, storage.getUser, storage.upsertUser    *)
(* and the handler's queries, and the steps of different requests (and of  *)
(* the administrator's updateUserRole) interleave freely.  Each database   *)
(* statement is atomic.                                                    *)
(***************************************************************************)
EXTENDS Integers, Sequences, FiniteSets, TLC

\* ---------------------------------------------------------------- bounds

\* Number of HTTP requests the server receives in one behaviour.
MaxReqs == 2
\* Number of requests the server works on at the same time.
MaxInFlight == 2
\* Number of updateUserRole calls an administrator makes in one behaviour.
MaxRoleChanges == 1
\* Last instant of the database clock (now()).
MaxClock == 1
\* Clock instants per calendar day.
DayLen == 1

Reqs == 1..MaxReqs

\* Number of getApp() calls the serverless runtime makes in one behaviour.
MaxCalls == 3
Calls == 1..MaxCalls

\* Number of requests the standalone serverless handler receives.
MaxStandaloneReqs == 2
StandaloneReqs == 1..MaxStandaloneReqs

\* Number of requests the session-based authenticateToken receives.
MaxSessionReqs == 2
SessionReqs == 1..MaxSessionReqs

\* Number of fetchUserProfile calls (background syncs) of one page load of the
\* client.
MaxSyncs == 2
Syncs == 1..MaxSyncs
\* const maxAttempts = 3 of the retrying syncWithBackend
maxAttempts == 3

\* ------------------------------------------------------------ identities

\* Subject ids the identity provider knows.
Ids == {"u1", "u2"}
\* A bearer token is absent, rejected by the provider, or valid for a subject.
Tokens == {"none", "bad"} \cup Ids

\* An Authorization header, as the words authHeader.split(' ') gives; <<>> when
\* the request carries none.
NoHeader == <<>>
BearerHeaders == {NoHeader} \cup {<<"Bearer", t>> : t \in Tokens \ {"none"}}
Headers ==
    BearerHeaders
        \cup {<<"Bearer">>, <<"u1">>, <<"Bearer", "", "u1">>}
        \cup {<<"Basic", t>> : t \in Tokens \ {"none"}}

\* authHeader && authHeader.split(' ')[1], "none" when falsy.
TokenOf(h) == IF Len(h) >= 2 /\ h[2] # "" THEN h[2] ELSE "none"
Roles == {"agent", "manager"}

\* The user POST /api/create-demo-user upserts.
DemoUser ==
    [id |-> "demo-agent", email |-> "demo@example.com", firstName |-> "Demo",
     lastName |-> "Agent", role |-> "agent"]
\* Every id a users row can carry.
Subjects == Ids \cup {DemoUser.id}

\* data.user.email || '' (and the demo user's email)
EmailOf(u) == IF u = "u1" THEN "u1@x" ELSE IF u = "u2" THEN "u2@x" ELSE DemoUser.email
\* data.user.user_metadata?.first_name || ...name?.split(' ')[0] || ''
\* (u2 carries no name metadata)
MetaFirstName(u) == IF u = "u1" THEN "Ann" ELSE ""
\* data.user.user_metadata?.last_name || ...name?.split(' ').slice(1).join(' ') || ''
MetaLastName(u) == IF u = "u1" THEN "Lee" ELSE ""

\* JavaScript a || b on strings: the empty string is falsy.
Or(a, b) == IF a # "" THEN a ELSE b

\* The absent user (undefined).
NoUser == [id |-> "", email |-> "", firstName |-> "", lastName |-> "", role |-> "none"]

\* --------------------------------------------------------------- routes

Endpoints == {"profile", "create", "listAll", "listMine", "stats"}
\* Routes registered with requireManager between authenticateToken and the handler.
ManagerEndpoints == {"listAll", "stats"}

\* ------------------------------------------------------- request bodies

ServiceTypes == {"feeding", "maintenance"}
SubmissionKeys == {"clientName", "government", "atmCode", "serviceType"}

BodyFeeding ==
    [clientName |-> "Acme", government |-> "cairo", atmCode |-> "ATM-001",
     serviceType |-> "feeding"]
BodyEmptyClientName ==
    [clientName |-> "", government |-> "cairo", atmCode |-> "ATM-001",
     serviceType |-> "feeding"]
BodyEmptyGovernmentAtmCode ==
    [clientName |-> "Acme", government |-> "", atmCode |-> "",
     serviceType |-> "feeding"]
BodyMissingClientName ==
    [government |-> "cairo", atmCode |-> "ATM-001", serviceType |-> "feeding"]
BodyMissingGovernment ==
    [clientName |-> "Acme", atmCode |-> "ATM-001", serviceType |-> "feeding"]
BodyMissingAtmCode ==
    [clientName |-> "Acme", government |-> "cairo", serviceType |-> "feeding"]
BodyBadServiceType ==
    [clientName |-> "Acme", government |-> "cairo", atmCode |-> "ATM-001",
     serviceType |-> "repair"]
\* A body that also carries the server-assigned fields.
BodyForged ==
    [clientName |-> "Acme", government |-> "cairo", atmCode |-> "ATM-001",
     serviceType |-> "maintenance", agentId |-> "u2", id |-> 99, createdAt |-> -1]

Bodies ==
    {BodyFeeding, BodyForged, BodyEmptyClientName, BodyEmptyGovernmentAtmCode,
     BodyMissingClientName, BodyMissingGovernment, BodyMissingAtmCode,
     BodyBadServiceType}

\* ----------------------------------------------------------------- state

VARIABLES
    variant,      \* the authenticateToken build deployed: "fallback" or "timeout"
    dbBuild,      \* the db.ts build deployed: "eager" (reads the connection string
                  \* when the module loads) or "lazy" (reads it at the first query)
    dbUrlSet,     \* the environment holds a database connection string
    server,       \* the process: "starting", "listening" or "failed"
    users,        \* the users table: a sequence of rows
    submissions,  \* the submissions table: a sequence of rows, in insertion order
    clock,        \* the database clock
    pc,           \* per request: where it is
    authHeader,   \* per request: req.headers.authorization
    ep,           \* per request: the route
    ident,        \* per request: the bearer token, then data.user.id
    dbUser,       \* per request: authenticateToken's local dbUser, until req.user is set
    reqUser,      \* per request: req.user
    stats,        \* per request: GET /api/stats' local stats
    dirFailed,    \* per request: a storage call of authenticateToken failed
    noRow,        \* per request: storage.getUser found no row (the !dbUser branch)
    startedAfter, \* history, per request: it arrived after the last updateUserRole
                  \* for the subject its token names had completed
    response,     \* the response the last step sent (NoResponse when it sent none):
                  \* route, caller, req.user, request body, status, JSON body
    roleChanges,  \* number of updateUserRole calls made
    lastRole,     \* history: per subject id, the role the last updateUserRole set
    acked,        \* history: per successful POST /api/submissions, the caller, the
                  \* submitted field values and the id answered
    createLog     \* history: per stored submission, who created it and when

\* The serverless entry point (server/app.js).
VARIABLES
    initializedApp, \* the module-level cache: the app, the error app, or null
    callPc,         \* per getApp() call: where it is in initializeApp
    callApp,        \* per call: the local app it constructed
    callResult,     \* per call: the app it returned
    callAnswer,     \* per call: what the returned app answered to the request
    initRuns        \* history: how many times the initialisation body was entered

appVars == <<initializedApp, callPc, callApp, callResult, callAnswer, initRuns>>

\* The standalone serverless handler (api/index.js of VERCEL_DEPLOYMENT.md),
\* which works on the same tables.
VARIABLES
    saPc,       \* per request: where its handler is
    saEp,       \* per request: the endpoint
    saHeader,   \* per request: req.headers.authorization, as words
    saUser,     \* per request: user.id of supabase.auth.getUser(token)
    saBody,     \* per request: req.body of POST /api/submissions
    saCounts,   \* per request: the COUNT results /api/stats has so far
    saVerified, \* history, per request: the provider accepted its token
    saResponse  \* the last response sent

standaloneVars ==
    <<saPc, saEp, saHeader, saUser, saBody, saCounts, saVerified, saResponse>>

\* The client's AuthProvider (client/src/contexts/AuthContext.tsx, and the
\* build whose syncWithBackend retries).
VARIABLES
    clientBuild,    \* "single": one profile request per sync; "retry": up to maxAttempts
    session,        \* the Supabase session of the browser: "none" or "active"
    backendRole,    \* the role /api/user/profile returns for the user
    clientUser,     \* the state `user` (NoUser for null)
    supabaseUser,   \* the state `supabaseUser`: a subject id, "none" for null
    loading,        \* the state `loading`
    isInitialLoad,  \* the effect's local flag
    initialChecked, \* the initial getSession() has resolved
    timeoutFired,   \* loadingTimeout has fired
    signOutPc,      \* signOut(): "idle", "awaiting" supabase.auth.signOut, "reloadPending"
    syncPc,         \* per sync: "idle", "getToken", "fetch", "wait", "done"
    syncAttempts,   \* per sync: the local `attempts`
    syncRequests,   \* history, per sync: /api/user/profile requests issued
    syncOk,         \* history, per sync: a response was ok
    signedOut,      \* history: signOut or SIGNED_OUT cleared user, no sign-in since
    managerSeen     \* history: a profile response set role manager, user not cleared since

clientVars ==
    <<clientBuild, session, backendRole, clientUser, supabaseUser, loading, isInitialLoad,
      initialChecked, timeoutFired, signOutPc, syncPc, syncAttempts, syncRequests, syncOk,
      signedOut, managerSeen>>

\* The session-based authenticateToken (the build behind Replit OAuth), on the
\* same users table.
VARIABLES
    sessPc,     \* per request: "idle", "findFirst", "insert", "done"
    sessSub,    \* per request: claims.sub of its session, "none" without one
    sessUser,   \* per request: req.user as the middleware set it
    sessAnswer, \* per request: next() or the 401 it was answered
    sessDbDown  \* history, per request: a query of it failed for want of the database

sessionVars == <<sessPc, sessSub, sessUser, sessAnswer, sessDbDown>>

\* The state of the components that are not the Express server of
\* server/routes.ts.
sideVars == <<appVars, standaloneVars, clientVars, sessionVars>>

vars ==
    <<sideVars, variant, dbBuild, dbUrlSet, server, users, submissions, clock, pc,
      authHeader, ep, ident, dbUser, reqUser, stats,
      dirFailed, noRow, startedAfter, response, roleChanges, lastRole, acked, createLog>>

bootVars == <<dbBuild, dbUrlSet, server>>
reqVars ==
    <<pc, authHeader, ep, ident, dbUser, reqUser, stats, dirFailed, noRow, startedAfter>>
dbVars == <<users, submissions, clock>>
histVars == <<roleChanges, lastRole, acked, createLog>>

\* No JSON body (and no local value yet).  Every body is a record, so that any two
\* can be compared: an array answer is the record holding it under `rows`.
NoBody == [none |-> TRUE]
Rows(list) == [rows |-> list]
NoResponse ==
    [ep |-> "none", caller |-> "none", user |-> NoUser, request |-> NoBody, status |-> 0,
     body |-> NoBody, dirFailed |-> FALSE]

\* What the history keeps of a POST /api/submissions answered 200.
Acknowledged(caller, body, id) ==
    [caller |-> caller, id |-> id, clientName |-> body.clientName,
     government |-> body.government, atmCode |-> body.atmCode,
     serviceType |-> body.serviceType]

\* An app instance: express() called by getApp() call `by`; null when none.
NoApp == [kind |-> "null", by |-> 0]
NewApp(c) == [kind |-> "app", by |-> c]
NewErrorApp(c) == [kind |-> "errorApp", by |-> c]

\* What the error app answers to any request.
InitializationFailed ==
    [handledBy |-> "errorApp", status |-> 500, error |-> "Server initialization failed"]

\* The request is handed to the Express app and its routes.
Routed == [handledBy |-> "app"]
NoAnswer == [handledBy |-> "none"]

\* server/app.js is loaded and getApp() has not been called.
AppInit ==
    /\ initializedApp = NoApp
    /\ callPc = [c \in Calls |-> "idle"]
    /\ callApp = [c \in Calls |-> NoApp]
    /\ callResult = [c \in Calls |-> NoApp]
    /\ callAnswer = [c \in Calls |-> NoAnswer]
    /\ initRuns = 0

NoCounts ==
    [total |-> 0, feeding |-> 0, maintenance |-> 0, todayCount |-> 0, activeAgents |-> 0]
NoStandaloneResponse ==
    [ep |-> "none", header |-> NoHeader, verified |-> FALSE, status |-> 0,
     body |-> NoBody]

\* The standalone handler is loaded and has received nothing.
StandaloneInit ==
    /\ saPc = [r \in StandaloneReqs |-> "idle"]
    /\ saEp = [r \in StandaloneReqs |-> "none"]
    /\ saHeader = [r \in StandaloneReqs |-> NoHeader]
    /\ saUser = [r \in StandaloneReqs |-> "none"]
    /\ saBody = [r \in StandaloneReqs |-> NoBody]
    /\ saCounts = [r \in StandaloneReqs |-> NoCounts]
    /\ saVerified = [r \in StandaloneReqs |-> FALSE]
    /\ saResponse = NoStandaloneResponse

\* The AuthProvider has just mounted: useState(null), useState(true).
ClientMounted ==
    /\ clientUser = NoUser
    /\ supabaseUser = "none"
    /\ loading = TRUE
    /\ isInitialLoad = TRUE
    /\ initialChecked = FALSE
    /\ timeoutFired = FALSE
    /\ signOutPc = "idle"
    /\ syncPc = [s \in Syncs |-> "idle"]
    /\ syncAttempts = [s \in Syncs |-> 0]
    /\ syncRequests = [s \in Syncs |-> 0]
    /\ syncOk = [s \in Syncs |-> FALSE]
    /\ signedOut = FALSE
    /\ managerSeen = FALSE

\* A page load, with or without a session the browser kept.
ClientInit ==
    /\ ClientMounted
    /\ clientBuild \in {"single", "retry"}
    /\ session \in {"none", "active"}
    /\ backendRole \in Roles

ClientOff ==
    /\ ClientMounted
    /\ clientBuild = "single"
    /\ session = "none"
    /\ backendRole = "agent"

NoSessionAnswer == [status |-> 0, next |-> FALSE]
\* next(): the request goes on to its route.
CalledNext == [status |-> 0, next |-> TRUE]
Unauthorized(error) == [status |-> 401, error |-> error]

\* The session-based middleware has received nothing.
SessionInit ==
    /\ sessPc = [r \in SessionReqs |-> "idle"]
    /\ sessSub = [r \in SessionReqs |-> "none"]
    /\ sessUser = [r \in SessionReqs |-> NoUser]
    /\ sessAnswer = [r \in SessionReqs |-> NoSessionAnswer]
    /\ sessDbDown = [r \in SessionReqs |-> FALSE]

\* The side components at rest, while the Express server is looked at.
SideOff == AppInit /\ StandaloneInit /\ ClientOff /\ SessionInit

\* The database outlives the server process.  The server starts either on an
\* empty database or on one an earlier run left: u1 has logged in once and has
\* filed one report at instant 0.
SeedUser ==
    [id |-> "u1", email |-> "u1@x", firstName |-> "Ann", lastName |-> "Lee",
     role |-> "agent"]
SeedSubmission ==
    [id |-> 1, clientName |-> "Acme", government |-> "cairo", atmCode |-> "ATM-001",
     serviceType |-> "feeding", agentId |-> "u1", createdAt |-> 0]

InitData ==
    /\ variant \in {"fallback", "timeout"}
    /\ \/ /\ users = <<>>
          /\ submissions = <<>>
          /\ acked = {}
          /\ createLog = <<>>
       \/ /\ users = <<SeedUser>>
          /\ submissions = <<SeedSubmission>>
          /\ acked = {Acknowledged("u1", SeedSubmission, 1)}
          /\ createLog = <<[auth |-> "u1", at |-> 0, gen |-> 1]>>
    /\ clock = 0
    /\ pc = [r \in Reqs |-> "idle"]
    /\ authHeader = [r \in Reqs |-> NoHeader]
    /\ ep = [r \in Reqs |-> "none"]
    /\ ident = [r \in Reqs |-> "none"]
    /\ dbUser = [r \in Reqs |-> NoUser]
    /\ reqUser = [r \in Reqs |-> NoUser]
    /\ stats = [r \in Reqs |-> NoBody]
    /\ dirFailed = [r \in Reqs |-> FALSE]
    /\ noRow = [r \in Reqs |-> FALSE]
    /\ startedAfter = [r \in Reqs |-> FALSE]
    /\ response = NoResponse
    /\ roleChanges = 0
    /\ lastRole = [u \in Subjects |-> "none"]
    /\ SideOff

\* The server is up, on the db.ts build whose exports routes.ts imports, with
\* its connection string configured.
Init ==
    /\ InitData
    /\ dbBuild = "lazy"
    /\ dbUrlSet = TRUE
    /\ server = "listening"

\* The process is about to load its modules, under any configuration.
BootInit ==
    /\ InitData
    /\ dbBuild \in {"eager", "lazy"}
    /\ dbUrlSet \in BOOLEAN
    /\ server = "starting"

\* ------------------------------------------------------------- startup

\* getDatabaseUrl() returns: a query can be issued only with a connection string.
DbConfigured == dbUrlSet

\* The process loads its modules, registers the routes and listens.  The eager
\* db.ts throws while loading when no connection string is set; the lazy one
\* loads without reading it, and the startup code only logs a warning.
Startup ==
    /\ server = "starting"
    /\ server' = IF dbBuild = "eager" /\ ~dbUrlSet THEN "failed" ELSE "listening"
    /\ response' = NoResponse
    /\ UNCHANGED <<sideVars, variant, dbBuild, dbUrlSet, dbVars, reqVars, histVars>>

\* ------------------------------------------------------------- storage

Indices(table) == 1..Len(table)

\* DatabaseStorage.getUser: const [user] = select ... where id = $1
GetUserRow(table, id) ==
    IF \E i \in Indices(table) : table[i].id = id
    THEN table[CHOOSE i \in Indices(table) :
                 /\ table[i].id = id
                 /\ \A j \in Indices(table) : table[j].id = id => i <= j]
    ELSE NoUser

\* An upsert with no conflict target: every call inserts a row.
UpsertUserAlwaysInsert(table, userData) == Append(table, userData)

\* DatabaseStorage.upsertUser: insert ... on conflict (id) do update
\* set {...userData, updatedAt}.  Every column userData carries is written.
UpsertUser(table, userData) ==
    IF \E i \in Indices(table) : table[i].id = userData.id
    THEN [i \in Indices(table) |->
            IF table[i].id = userData.id THEN userData ELSE table[i]]
    ELSE Append(table, userData)

\* DatabaseStorage.updateUserRole: update users set role = $2 where email = $1
UpdateRoleRows(table, email, role) ==
    [i \in Indices(table) |->
        IF table[i].email = email THEN [table[i] EXCEPT !.role = role] ELSE table[i]]

\* ----------------------------------------------------- authenticateToken

\* req.user = {id, email, firstName, lastName, role} taken from dbUser.
AttachedUser(u) ==
    [id |-> u.id, email |-> u.email, firstName |-> u.firstName,
     lastName |-> u.lastName, role |-> u.role]

\* The temporary user object built from Supabase data when the directory fails.
FallbackUser(id) ==
    [id |-> id, email |-> EmailOf(id), firstName |-> MetaFirstName(id),
     lastName |-> MetaLastName(id), role |-> "agent"]

\* The argument of upsertUser when getUser found no row.
NewUserData(id) ==
    [id |-> id, email |-> EmailOf(id), firstName |-> MetaFirstName(id),
     lastName |-> MetaLastName(id), role |-> "agent"]

\* The argument of upsertUser when getUser found the row `existing`.
RefreshUserData(id, existing) ==
    [id |-> id, email |-> EmailOf(id),
     firstName |-> Or(MetaFirstName(id), existing.firstName),
     lastName |-> Or(MetaLastName(id), existing.lastName),
     role |-> existing.role]

\* A registration that leaves requireManager out of every route.
AfterAuthWithoutRequireManager(e) == "handler"

\* Where next() leads from authenticateToken on route e.
AfterAuth(e) == IF e \in ManagerEndpoints THEN "requireManager" ELSE "handler"

\* res.status(code).json(body): the request is over and its locals are gone.
Respond(r, e, caller, user, request, code, body, failed) ==
    /\ pc' = [pc EXCEPT ![r] = "done"]
    /\ authHeader' = [authHeader EXCEPT ![r] = NoHeader]
    /\ ep' = [ep EXCEPT ![r] = "none"]
    /\ ident' = [ident EXCEPT ![r] = "none"]
    /\ dbUser' = [dbUser EXCEPT ![r] = NoUser]
    /\ reqUser' = [reqUser EXCEPT ![r] = NoUser]
    /\ stats' = [stats EXCEPT ![r] = NoBody]
    /\ dirFailed' = [dirFailed EXCEPT ![r] = FALSE]
    /\ noRow' = [noRow EXCEPT ![r] = FALSE]
    /\ startedAfter' = [startedAfter EXCEPT ![r] = FALSE]
    /\ response' = [ep |-> e, caller |-> caller, user |-> user, request |-> request,
                    status |-> code, body |-> body, dirFailed |-> failed]

\* An error answer of request r.
Answer(r, code) ==
    Respond(r, ep[r], ident[r], reqUser[r], NoBody, code, NoBody, dirFailed[r])

\* res.json(body) of request r.
Succeed(r, body) ==
    Respond(r, ep[r], ident[r], reqUser[r], NoBody, 200, body, dirFailed[r])

\* An answer of POST /api/submissions to the request body `request`.
AnswerPost(r, request, code, body) ==
    Respond(r, ep[r], ident[r], reqUser[r], request, code, body, dirFailed[r])

\* Requests take the slots in order, MaxInFlight of them at a time.
FirstIdle(r) ==
    /\ pc[r] = "idle"
    /\ \A q \in Reqs : q < r => pc[q] # "idle"
    /\ Cardinality({q \in Reqs : pc[q] \notin {"idle", "done"}}) < MaxInFlight

\* A request arrives; authenticateToken reads the Authorization header.
Receive(r, e, h) ==
    /\ server = "listening"
    /\ FirstIdle(r)
    /\ LET t == TokenOf(h) IN
       IF t = "none"
       THEN Respond(r, e, t, NoUser, NoBody, 401, NoBody, FALSE)
       ELSE /\ pc' = [pc EXCEPT ![r] = "verify"]
            /\ authHeader' = [authHeader EXCEPT ![r] = h]
            /\ ep' = [ep EXCEPT ![r] = e]
            /\ ident' = [ident EXCEPT ![r] = t]
            /\ startedAfter' =
                  [startedAfter EXCEPT ![r] = t \in Ids /\ lastRole[t] # "none"]
            /\ response' = NoResponse
            /\ UNCHANGED <<dbUser, reqUser, stats, dirFailed, noRow>>
    /\ UNCHANGED <<sideVars, bootVars, variant, dbVars, histVars>>

\* supabase.auth.getUser(token) returns: the provider accepts or rejects the token.
Verify(r) ==
    /\ pc[r] = "verify"
    /\ IF ident[r] \in Ids
       THEN /\ pc' = [pc EXCEPT ![r] = "getUser"]
            /\ response' = NoResponse
            /\ UNCHANGED <<startedAfter, authHeader, ep, ident, dbUser, reqUser, stats,
                           dirFailed, noRow>>
       ELSE Answer(r, 401)
    /\ UNCHANGED <<sideVars, bootVars, variant, dbVars, histVars>>

\* supabase.auth.getUser(token) cannot reach the provider: it returns an error
\* (or throws into the outer catch); both paths answer 401.
VerifyUnavailable(r) ==
    /\ pc[r] = "verify"
    /\ Answer(r, 401)
    /\ UNCHANGED <<sideVars, bootVars, variant, dbVars, histVars>>

\* supabase.auth.getUser(token) never settles: nothing bounds the await, so the
\* request stays suspended in authenticateToken.
ProviderHangs(r) ==
    /\ pc[r] = "verify"
    /\ pc' = [pc EXCEPT ![r] = "verifyHung"]
    /\ response' = NoResponse
    /\ UNCHANGED <<startedAfter, authHeader, ep, ident, dbUser, reqUser, stats, dirFailed,
                   noRow>>
    /\ UNCHANGED <<sideVars, bootVars, variant, dbVars, histVars>>

\* req.user = {...}; next()
AttachAndNext(r, u) ==
    /\ dbUser' = [dbUser EXCEPT ![r] = NoUser]
    /\ reqUser' = [reqUser EXCEPT ![r] = AttachedUser(u)]
    /\ pc' = [pc EXCEPT ![r] = AfterAuth(ep[r])]
    /\ response' = NoResponse
    /\ UNCHANGED <<startedAfter, authHeader, ep, ident, stats>>

\* Where a request is while storage.getUser runs: in its select on the shared
\* connection, or in the second select on a fresh connection.
InGetUser == {"getUser", "getUserFresh"}

\* DatabaseStorage.getUser's first select throws: the catch calls getFreshDb()
\* and issues the select again.
GetUserPrimaryFails(r) ==
    /\ dbBuild = "lazy"
    /\ pc[r] = "getUser"
    /\ pc' = [pc EXCEPT ![r] = "getUserFresh"]
    /\ response' = NoResponse
    /\ UNCHANGED <<startedAfter, authHeader, ep, ident, dbUser, reqUser, stats, dirFailed,
                   noRow>>
    /\ UNCHANGED <<sideVars, bootVars, variant, dbVars, histVars>>

\* storage.getUser(data.user.id) returns.
GetUser(r) ==
    /\ DbConfigured
    /\ pc[r] \in InGetUser
    /\ LET row == GetUserRow(users, ident[r]) IN
       /\ noRow' = [noRow EXCEPT ![r] = (row = NoUser)]
       /\ IF variant = "timeout" /\ row # NoUser
          THEN AttachAndNext(r, row)
          ELSE /\ dbUser' = [dbUser EXCEPT ![r] = row]
               /\ pc' = [pc EXCEPT ![r] = "upsertUser"]
               /\ response' = NoResponse
               /\ UNCHANGED <<startedAfter, authHeader, ep, ident, reqUser, stats>>
    /\ UNCHANGED <<sideVars, bootVars, variant, dbVars, dirFailed, histVars>>

\* A storage call of authenticateToken rejects (or, in the build with the
\* database-operation timeout, loses the race against it).
DirectoryFailure(r) ==
    /\ IF variant = "fallback"
       THEN /\ AttachAndNext(r, FallbackUser(ident[r]))
            /\ dirFailed' = [dirFailed EXCEPT ![r] = TRUE]
            /\ UNCHANGED noRow
       ELSE Respond(r, ep[r], ident[r], reqUser[r], NoBody, 503, NoBody, TRUE)
    /\ UNCHANGED <<sideVars, bootVars, variant, dbVars, histVars>>

\* storage.getUser rejects (its selects have failed) or loses the race.
GetUserFails(r) ==
    /\ pc[r] \in InGetUser
    /\ DirectoryFailure(r)

\* storage.upsertUser(...) returns the written row.
UpsertUserStep(r) ==
    /\ DbConfigured
    /\ pc[r] = "upsertUser"
    /\ LET userData == IF dbUser[r] = NoUser
                       THEN NewUserData(ident[r])
                       ELSE RefreshUserData(ident[r], dbUser[r])
           written == UpsertUser(users, userData)
       IN /\ users' = written
          /\ AttachAndNext(r, GetUserRow(written, userData.id))
    /\ UNCHANGED <<sideVars, bootVars, variant, submissions, clock, dirFailed, noRow, histVars>>

UpsertUserFails(r) ==
    /\ pc[r] = "upsertUser"
    /\ DirectoryFailure(r)

\* Where a request answered 503 is while the storage call that lost the race
\* against dbOperationTimeout is still running.
Late == {"lateGetUser", "lateUpsertUser"}

\* The database-operation timeout fires while storage.getUser or
\* storage.upsertUser is pending: Promise.race rejects, the catch answers 503
\* and returns.  The storage call itself goes on.
TimeoutFires(r) ==
    /\ variant = "timeout"
    /\ pc[r] \in InGetUser \cup {"upsertUser"}
    /\ pc' = [pc EXCEPT ![r] = IF pc[r] \in InGetUser THEN "lateGetUser"
                                                      ELSE "lateUpsertUser"]
    /\ response' = [ep |-> ep[r], caller |-> ident[r], user |-> reqUser[r],
                    request |-> NoBody, status |-> 503, body |-> NoBody,
                    dirFailed |-> TRUE]
    /\ UNCHANGED <<startedAfter, authHeader, ep, ident, dbUser, reqUser, stats, dirFailed,
                   noRow>>
    /\ UNCHANGED <<sideVars, bootVars, variant, dbVars, histVars>>

\* A continuation that goes on with the late result as if the race had been won.
UseLateResult(r, row) ==
    /\ AttachAndNext(r, row)
    /\ UNCHANGED <<dirFailed, noRow>>

\* The storage call that lost the race settles: nobody awaits it any more, its
\* result is dropped and the request, already answered, is over.
DropLateResult(r, row) ==
    /\ pc' = [pc EXCEPT ![r] = "done"]
    /\ authHeader' = [authHeader EXCEPT ![r] = NoHeader]
    /\ ep' = [ep EXCEPT ![r] = "none"]
    /\ ident' = [ident EXCEPT ![r] = "none"]
    /\ dbUser' = [dbUser EXCEPT ![r] = NoUser]
    /\ reqUser' = [reqUser EXCEPT ![r] = NoUser]
    /\ noRow' = [noRow EXCEPT ![r] = FALSE]
    /\ startedAfter' = [startedAfter EXCEPT ![r] = FALSE]
    /\ response' = NoResponse
    /\ UNCHANGED <<stats, dirFailed>>

\* The timed-out storage.getUser settles (with a row, without, or by throwing).
LateGetUser(r) ==
    /\ pc[r] = "lateGetUser"
    /\ DropLateResult(r, GetUserRow(users, ident[r]))
    /\ UNCHANGED <<sideVars, bootVars, variant, dbVars, histVars>>

\* The timed-out storage.upsertUser is carried out by the database.
LateUpsertUser(r) ==
    /\ DbConfigured
    /\ pc[r] = "lateUpsertUser"
    /\ LET written == UpsertUser(users, NewUserData(ident[r])) IN
       /\ users' = written
       /\ DropLateResult(r, GetUserRow(written, ident[r]))
    /\ UNCHANGED <<sideVars, bootVars, variant, submissions, clock, histVars>>

\* The timed-out storage.upsertUser throws.
LateUpsertUserFails(r) ==
    /\ pc[r] = "lateUpsertUser"
    /\ DropLateResult(r, NoUser)
    /\ UNCHANGED <<sideVars, bootVars, variant, dbVars, histVars>>

\* A requireManager that refuses nobody.
NotManagerNever(u) == FALSE

\* requireManager's refusal: req.user.role !== 'manager'
NotManager(u) == u.role # "manager"

RequireManager(r) ==
    /\ pc[r] = "requireManager"
    /\ IF reqUser[r] = NoUser
       THEN Answer(r, 401)
       ELSE IF NotManager(reqUser[r])
            THEN Answer(r, 403)
            ELSE /\ pc' = [pc EXCEPT ![r] = "handler"]
                 /\ response' = NoResponse
                 /\ UNCHANGED <<startedAfter, authHeader, ep, ident, dbUser, reqUser,
                                stats, dirFailed, noRow>>
    /\ UNCHANGED <<sideVars, bootVars, variant, dbVars, histVars>>

\* ------------------------------------------------------- administration

\* storage.updateUserRole(email, role), called by an administrator.  A call whose
\* email matches no row updates nothing and returns undefined: it is no step.
UpdateUserRole(u, role) ==
    /\ roleChanges < MaxRoleChanges
    /\ \E i \in Indices(users) : users[i].email = EmailOf(u)
    /\ roleChanges' = roleChanges + 1
    /\ users' = UpdateRoleRows(users, EmailOf(u), role)
    /\ lastRole' = [lastRole EXCEPT ![u] = role]
    /\ startedAfter' = [r \in Reqs |-> startedAfter[r] /\ ident[r] # u]
    /\ response' = NoResponse
    /\ UNCHANGED <<sideVars, bootVars, variant, submissions, clock, pc, authHeader, ep, ident,
                   dbUser, reqUser, stats, dirFailed, noRow, acked, createLog>>

\* Time passes.
Tick ==
    /\ clock < MaxClock
    /\ clock' = clock + 1
    /\ response' = NoResponse
    /\ UNCHANGED <<sideVars, bootVars, variant, users, submissions, reqVars, histVars>>

\* ------------------------------------------------- submission storage

\* A parse that keeps the keys the schema does not pick.
ParseSubmissionKeepAll(body) == body

\* insertSubmissionSchema.parse(body) on a body it accepts: the object holds the
\* four picked keys and nothing else (zod strips unknown keys).
ParseSubmission(body) == [k \in SubmissionKeys |-> body[k]]

\* A schema whose serviceType is any string.
SchemaAcceptsAnyService(body) == SubmissionKeys \subseteq DOMAIN body

\* Whether insertSubmissionSchema accepts the body: createInsertSchema turns the
\* notNull text/varchar columns into z.string() (required, any string, the empty
\* one included) and the enum column into z.enum(["feeding", "maintenance"]).
SchemaAccepts(body) ==
    /\ SubmissionKeys \subseteq DOMAIN body
    /\ body.serviceType \in ServiceTypes

\* The column value of an insert: the supplied one, else the column default.
ColumnOr(values, key, default) ==
    IF key \in DOMAIN values THEN values[key] ELSE default

\* An insert that replaces the newest row instead of adding one.
InsertSubmissionOverwrite(table, values, genId, now) ==
    IF table = <<>>
    THEN <<[id |-> genId, clientName |-> values.clientName,
            government |-> values.government, atmCode |-> values.atmCode,
            serviceType |-> values.serviceType, agentId |-> values.agentId,
            createdAt |-> now]>>
    ELSE [table EXCEPT ![Len(table)] =
            [id |-> genId, clientName |-> values.clientName,
             government |-> values.government, atmCode |-> values.atmCode,
             serviceType |-> values.serviceType, agentId |-> values.agentId,
             createdAt |-> now]]

\* DatabaseStorage.createSubmission: insert into submissions values (...) returning *;
\* id defaults to gen_random_uuid() and created_at to now().
InsertSubmission(table, values, genId, now) ==
    Append(table,
           [id |-> ColumnOr(values, "id", genId),
            clientName |-> values.clientName,
            government |-> values.government,
            atmCode |-> values.atmCode,
            serviceType |-> values.serviceType,
            agentId |-> values.agentId,
            createdAt |-> ColumnOr(values, "createdAt", now)])

\* A submissions table whose agent_id column carries no reference.
ForeignKeyUnchecked(table, agentId) == TRUE

\* agent_id references users(id)
ForeignKeyHolds(table, agentId) == \E i \in Indices(table) : table[i].id = agentId

RECURSIVE InsertByCreatedAtDesc(_, _)
InsertByCreatedAtDesc(row, sorted) ==
    IF sorted = <<>>
    THEN <<row>>
    ELSE IF row.createdAt >= Head(sorted).createdAt
         THEN <<row>> \o sorted
         ELSE <<Head(sorted)>> \o InsertByCreatedAtDesc(row, Tail(sorted))

\* orderBy(desc(submissions.createdAt))
RECURSIVE OrderByCreatedAtDesc(_)
OrderByCreatedAtDesc(rows) ==
    IF rows = <<>>
    THEN <<>>
    ELSE InsertByCreatedAtDesc(Head(rows), OrderByCreatedAtDesc(Tail(rows)))

\* A listing without its where clause.
GetSubmissionsByAgentNoFilter(table, agentId) == OrderByCreatedAtDesc(table)

\* A listing cut to its newest row (limit 1).
GetSubmissionsByAgentNewestOnly(table, agentId) ==
    LET mine == OrderByCreatedAtDesc(SelectSeq(table, LAMBDA s : s.agentId = agentId))
    IN IF mine = <<>> THEN <<>> ELSE <<Head(mine)>>

\* DatabaseStorage.getSubmissionsByAgent
GetSubmissionsByAgent(table, agentId) ==
    OrderByCreatedAtDesc(SelectSeq(table, LAMBDA s : s.agentId = agentId))

\* The agentName of getAllSubmissions' map, from the joined name columns ("" when
\* null or when the left join found no user).
AgentName(firstName, lastName) ==
    IF firstName # "" /\ lastName # ""
    THEN firstName \o " " \o lastName
    ELSE Or(Or(firstName, lastName), "Unknown Agent")

\* DatabaseStorage.getAllSubmissions
GetAllSubmissions(table, userTable) ==
    LET sorted == OrderByCreatedAtDesc(table) IN
    [i \in Indices(sorted) |->
        LET owner == GetUserRow(userTable, sorted[i].agentId) IN
        [id |-> sorted[i].id, clientName |-> sorted[i].clientName,
         government |-> sorted[i].government, atmCode |-> sorted[i].atmCode,
         serviceType |-> sorted[i].serviceType, agentId |-> sorted[i].agentId,
         createdAt |-> sorted[i].createdAt,
         firstName |-> owner.firstName, lastName |-> owner.lastName,
         agentName |-> AgentName(owner.firstName, owner.lastName)]]

\* today.setHours(0, 0, 0, 0)
StartOfDay(now) == (now \div DayLen) * DayLen

\* DatabaseStorage.getSubmissionStats: one select of every row, counted in memory.
GetSubmissionStats(table, now) ==
    [total |-> Len(table),
     feeding |-> Len(SelectSeq(table, LAMBDA s : s.serviceType = "feeding")),
     maintenance |-> Len(SelectSeq(table, LAMBDA s : s.serviceType = "maintenance")),
     todayCount |-> Len(SelectSeq(table, LAMBDA s : s.createdAt >= StartOfDay(now)))]

\* DatabaseStorage.getActiveAgentsCount
GetActiveAgentsCount(userTable) == Len(SelectSeq(userTable, LAMBDA u : u.role = "agent"))

\* -------------------------------------------------------------- handlers

\* GET /api/user/profile and GET /api/user
HandleProfile(r) ==
    /\ pc[r] = "handler" /\ ep[r] = "profile"
    /\ IF reqUser[r] = NoUser
       THEN Answer(r, 401)
       ELSE Succeed(r, reqUser[r])
    /\ UNCHANGED <<sideVars, bootVars, variant, dbVars, histVars>>

\* POST /api/submissions
HandleCreate(r, body) ==
    /\ pc[r] = "handler" /\ ep[r] = "create"
    /\ IF ~SchemaAccepts(body)
       THEN \* ZodError
            /\ AnswerPost(r, body, 400, NoBody)
            /\ UNCHANGED <<submissions, acked, createLog>>
       ELSE IF reqUser[r] = NoUser
       THEN /\ AnswerPost(r, body, 401, NoBody)
            /\ UNCHANGED <<submissions, acked, createLog>>
       ELSE LET values == [agentId |-> reqUser[r].id] @@ ParseSubmission(body)
                genId == Len(submissions) + 1
                stored == InsertSubmission(submissions, values, genId, clock)
            IN IF ~ForeignKeyHolds(users, values.agentId)
               THEN \* the insert throws
                    /\ AnswerPost(r, body, 500, NoBody)
                    /\ UNCHANGED <<submissions, acked, createLog>>
               ELSE /\ submissions' = stored
                    /\ AnswerPost(r, body, 200, stored[Len(stored)])
                    /\ acked' = acked \cup
                                {Acknowledged(ident[r], body, stored[Len(stored)].id)}
                    /\ createLog' = Append(createLog,
                                           [auth |-> ident[r], at |-> clock, gen |-> genId])
    /\ UNCHANGED <<sideVars, bootVars, variant, users, clock, roleChanges, lastRole>>

\* GET /api/submissions
HandleListAll(r) ==
    /\ pc[r] = "handler" /\ ep[r] = "listAll"
    /\ Succeed(r, Rows(GetAllSubmissions(submissions, users)))
    /\ UNCHANGED <<sideVars, bootVars, variant, dbVars, histVars>>

\* GET /api/submissions/my
HandleListMine(r) ==
    /\ pc[r] = "handler" /\ ep[r] = "listMine"
    /\ IF reqUser[r] = NoUser
       THEN Answer(r, 401)
       ELSE Succeed(r, Rows(GetSubmissionsByAgent(submissions, reqUser[r].id)))
    /\ UNCHANGED <<sideVars, bootVars, variant, dbVars, histVars>>

\* GET /api/stats: await storage.getSubmissionStats()
HandleStats(r) ==
    /\ pc[r] = "handler" /\ ep[r] = "stats"
    /\ pc' = [pc EXCEPT ![r] = "activeAgents"]
    /\ stats' = [stats EXCEPT ![r] = GetSubmissionStats(submissions, clock)]
    /\ response' = NoResponse
    /\ UNCHANGED <<sideVars, bootVars, variant, dbVars, authHeader, ep, ident, dbUser, reqUser,
                   dirFailed, noRow,
                   startedAfter, histVars>>

\* GET /api/stats: await storage.getActiveAgentsCount(); res.json({...stats, activeAgents})
HandleActiveAgents(r) ==
    /\ pc[r] = "activeAgents"
    /\ Succeed(r, [activeAgents |-> GetActiveAgentsCount(users)] @@ stats[r])
    /\ UNCHANGED <<sideVars, bootVars, variant, dbVars, histVars>>

\* A handler's storage call throws: the handler's catch answers 500.
HandlerDbFails(r) ==
    /\ IF pc[r] = "handler" THEN ep[r] \notin {"none", "profile"} ELSE pc[r] = "activeAgents"
    /\ Answer(r, 500)
    /\ UNCHANGED <<sideVars, bootVars, variant, dbVars, histVars>>

\* POST /api/create-demo-user: no middleware; storage.upsertUser(demo user),
\* res.json(demoUser).
CreateDemoUser ==
    /\ users' = UpsertUser(users, DemoUser)
    /\ response' = [ep |-> "createDemoUser", caller |-> "none", user |-> NoUser,
                    request |-> NoBody, status |-> 200,
                    body |-> GetUserRow(users', DemoUser.id), dirFailed |-> FALSE]
    /\ UNCHANGED <<sideVars, bootVars, variant, submissions, clock, reqVars, histVars>>

\* POST /api/create-demo-user: upsertUser throws, the catch answers 500.
CreateDemoUserFails ==
    /\ response' = [ep |-> "createDemoUser", caller |-> "none", user |-> NoUser,
                    request |-> NoBody, status |-> 500, body |-> NoBody,
                    dirFailed |-> FALSE]
    /\ UNCHANGED <<sideVars, bootVars, variant, dbVars, reqVars, histVars>>

\* ------------------------------------------------- serverless entry point

\* Everything the Express server of server/routes.ts holds.
serverVars == <<variant, bootVars, dbVars, reqVars, histVars, response>>

\* The Express server with no request made, while a side component is looked
\* at.
ServerIdle ==
    /\ variant = "timeout"
    /\ acked = {}
    /\ createLog = <<>>
    /\ clock = 0
    /\ pc = [r \in Reqs |-> "idle"]
    /\ authHeader = [r \in Reqs |-> NoHeader]
    /\ ep = [r \in Reqs |-> "none"]
    /\ ident = [r \in Reqs |-> "none"]
    /\ dbUser = [r \in Reqs |-> NoUser]
    /\ reqUser = [r \in Reqs |-> NoUser]
    /\ stats = [r \in Reqs |-> NoBody]
    /\ dirFailed = [r \in Reqs |-> FALSE]
    /\ noRow = [r \in Reqs |-> FALSE]
    /\ startedAfter = [r \in Reqs |-> FALSE]
    /\ response = NoResponse
    /\ roleChanges = 0
    /\ lastRole = [u \in Subjects |-> "none"]
    /\ dbBuild = "lazy"
    /\ dbUrlSet = TRUE
    /\ server = "listening"

\* ... and its tables empty.
ServerOff ==
    /\ ServerIdle
    /\ users = <<>>
    /\ submissions = <<>>

\* Everything but the entry point's own state.
appFrame == <<serverVars, standaloneVars, clientVars, sessionVars>>

\* initializeApp's cache check: if (initializedApp) return initializedApp
CacheHit(cached) == cached # NoApp

\* getApp() is called: initializeApp returns the cached app, or enters the
\* initialisation body (const app = express(); ...) up to await setupAuth(app).
GetApp(c) ==
    /\ callPc[c] = "idle"
    /\ \A d \in Calls : d < c => callPc[d] # "idle"
    /\ IF CacheHit(initializedApp)
       THEN /\ callPc' = [callPc EXCEPT ![c] = "returned"]
            /\ callResult' = [callResult EXCEPT ![c] = initializedApp]
            /\ UNCHANGED <<callApp, initRuns>>
       ELSE /\ callPc' = [callPc EXCEPT ![c] = "setupAuth"]
            /\ callApp' = [callApp EXCEPT ![c] = NewApp(c)]
            /\ initRuns' = initRuns + 1
            /\ UNCHANGED callResult
    /\ UNCHANGED <<initializedApp, callAnswer, appFrame>>

\* await setupAuth(app) returns; registerRoutes(app) is awaited.
SetupAuthReturns(c) ==
    /\ callPc[c] = "setupAuth"
    /\ callPc' = [callPc EXCEPT ![c] = "registerRoutes"]
    /\ UNCHANGED <<initializedApp, callApp, callResult, callAnswer, initRuns, appFrame>>

\* await registerRoutes(app) returns: serveStatic, the error handler,
\* initializedApp = app; return app.
RegisterRoutesReturns(c) ==
    /\ callPc[c] = "registerRoutes"
    /\ initializedApp' = callApp[c]
    /\ callPc' = [callPc EXCEPT ![c] = "returned"]
    /\ callResult' = [callResult EXCEPT ![c] = callApp[c]]
    /\ UNCHANGED <<callApp, callAnswer, initRuns, appFrame>>

\* setupAuth or registerRoutes throws: the catch builds the error app,
\* initializedApp = errorApp; return errorApp.
InitializeAppThrows(c) ==
    /\ callPc[c] \in {"setupAuth", "registerRoutes"}
    /\ initializedApp' = NewErrorApp(c)
    /\ callPc' = [callPc EXCEPT ![c] = "returned"]
    /\ callApp' = [callApp EXCEPT ![c] = NewErrorApp(c)]
    /\ callResult' = [callResult EXCEPT ![c] = NewErrorApp(c)]
    /\ UNCHANGED <<callAnswer, initRuns, appFrame>>

\* The serverless handler passes the request to the app getApp() returned:
\* return app(req, res). The error app answers every path with the 500.
AppHandles(c) ==
    /\ callPc[c] = "returned"
    /\ callPc' = [callPc EXCEPT ![c] = "answered"]
    /\ callAnswer' = [callAnswer EXCEPT ![c] =
            IF callResult[c].kind = "errorApp" THEN InitializationFailed ELSE Routed]
    /\ UNCHANGED <<initializedApp, callApp, callResult, initRuns, appFrame>>

AppNext ==
    \/ \E c \in Calls : GetApp(c)
    \/ \E c \in Calls : SetupAuthReturns(c)
    \/ \E c \in Calls : RegisterRoutesReturns(c)
    \/ \E c \in Calls : InitializeAppThrows(c)
    \/ \E c \in Calls : AppHandles(c)

\* A cold serverless instance.
InitApp == ServerOff /\ AppInit /\ StandaloneInit /\ ClientOff /\ SessionInit

SpecApp == InitApp /\ [][AppNext]_vars

\* ------------------------------------------- standalone serverless handler

StandaloneEndpoints == {"listAll", "listMine", "create", "stats"}
\* The request bodies POST /api/submissions is tried with.
StandaloneBodies == {BodyFeeding, BodyForged, BodyEmptyClientName, BodyBadServiceType}

\* authHeader && authHeader.startsWith('Bearer ')
StartsWithBearer(h) == Len(h) >= 2 /\ h[1] = "Bearer"

\* authHeader.substring(7): the one word after 'Bearer ', or text the provider
\* rejects.
BearerToken(h) == IF Len(h) = 2 /\ h[2] # "" THEN h[2] ELSE "bad"

\* !clientName || !government || !atmCode || !serviceType
MissingRequiredFields(body) ==
    \E k \in SubmissionKeys : k \notin DOMAIN body \/ body[k] = ""

\* CHECK (service_type IN ('feeding', 'maintenance'))
ServiceTypeCheckHolds(values) == values.serviceType \in ServiceTypes

\* Everything the standalone handler leaves alone, its tables apart.
standaloneFrame ==
    <<appVars, clientVars, sessionVars, variant, bootVars, users, reqVars, histVars,
      response>>

\* res.status(code).json(body) / res.json(body)
StandaloneRespond(r, code, body) ==
    /\ saPc' = [saPc EXCEPT ![r] = "done"]
    /\ saResponse' = [ep |-> saEp[r], header |-> saHeader[r],
                      verified |-> saVerified[r], status |-> code, body |-> body]
    /\ saEp' = [saEp EXCEPT ![r] = "none"]
    /\ saHeader' = [saHeader EXCEPT ![r] = NoHeader]
    /\ saUser' = [saUser EXCEPT ![r] = "none"]
    /\ saBody' = [saBody EXCEPT ![r] = NoBody]
    /\ saCounts' = [saCounts EXCEPT ![r] = NoCounts]
    /\ saVerified' = [saVerified EXCEPT ![r] = FALSE]

\* A request arrives and its handler runs to its first await: the header
\* check of the three submission routes, none on /api/stats.
StandaloneReceive(r, e, h, body) ==
    /\ saPc[r] = "idle"
    /\ \A q \in StandaloneReqs : q < r => saPc[q] # "idle"
    /\ IF e # "stats" /\ ~StartsWithBearer(h)
       THEN /\ saPc' = [saPc EXCEPT ![r] = "done"]
            /\ saResponse' = [ep |-> e, header |-> h, verified |-> FALSE,
                              status |-> 401, body |-> NoBody]
            /\ UNCHANGED <<saEp, saHeader, saBody>>
       ELSE /\ saPc' = [saPc EXCEPT ![r] =
                    CASE e = "stats" -> "total"
                      [] e = "listAll" -> "query"
                      [] OTHER -> "verify"]
            /\ saEp' = [saEp EXCEPT ![r] = e]
            /\ saHeader' = [saHeader EXCEPT ![r] = h]
            /\ saBody' = [saBody EXCEPT ![r] = IF e = "create" THEN body ELSE NoBody]
            /\ UNCHANGED saResponse
    /\ UNCHANGED <<saUser, saCounts, saVerified, submissions, clock, standaloneFrame>>

\* await supabase.auth.getUser(token) returns, in /api/submissions/my and
\* POST /api/submissions; the latter goes on to its required-fields check.
StandaloneVerify(r) ==
    /\ saPc[r] = "verify"
    /\ LET token == BearerToken(saHeader[r]) IN
       IF token \notin Ids
       THEN StandaloneRespond(r, 401, NoBody)
       ELSE IF saEp[r] = "create" /\ MissingRequiredFields(saBody[r])
       THEN StandaloneRespond(r, 400, NoBody)
       ELSE /\ saUser' = [saUser EXCEPT ![r] = token]
            /\ saVerified' = [saVerified EXCEPT ![r] = TRUE]
            /\ saPc' = [saPc EXCEPT ![r] = IF saEp[r] = "create" THEN "insert" ELSE "query"]
            /\ UNCHANGED <<saEp, saHeader, saBody, saCounts, saResponse>>
    /\ UNCHANGED <<submissions, clock, standaloneFrame>>

\* An awaited call rejects (the provider or the database is unreachable): the
\* handler's catch answers 500.
StandaloneThrows(r) ==
    /\ saPc[r] \notin {"idle", "done"}
    /\ StandaloneRespond(r, 500, NoBody)
    /\ UNCHANGED <<submissions, clock, standaloneFrame>>

\* agentName: `${s.first_name} ${s.last_name}` of the left join.
StandaloneAgentName(owner) ==
    IF owner = NoUser THEN "null null" ELSE owner.firstName \o " " \o owner.lastName

\* GET /api/submissions: select ... left join users ... order by created_at desc
StandaloneListAll(r) ==
    /\ saPc[r] = "query" /\ saEp[r] = "listAll"
    /\ LET sorted == OrderByCreatedAtDesc(submissions) IN
       StandaloneRespond(r, 200,
           Rows([i \in Indices(sorted) |->
                   [id |-> sorted[i].id, clientName |-> sorted[i].clientName,
                    government |-> sorted[i].government, atmCode |-> sorted[i].atmCode,
                    serviceType |-> sorted[i].serviceType, agentId |-> sorted[i].agentId,
                    agentName |-> StandaloneAgentName(GetUserRow(users, sorted[i].agentId)),
                    createdAt |-> sorted[i].createdAt]]))
    /\ UNCHANGED <<submissions, clock, standaloneFrame>>

\* GET /api/submissions/my: select ... where agent_id = user.id order by
\* created_at desc
StandaloneListMine(r) ==
    /\ saPc[r] = "query" /\ saEp[r] = "listMine"
    /\ StandaloneRespond(r, 200,
           Rows(OrderByCreatedAtDesc(
                    SelectSeq(submissions, LAMBDA s : s.agentId = saUser[r]))))
    /\ UNCHANGED <<submissions, clock, standaloneFrame>>

\* POST /api/submissions: insert into submissions (...) values (...) returning *;
\* a constraint the row breaks makes the insert throw.
StandaloneCreate(r) ==
    /\ saPc[r] = "insert"
    /\ LET values == [agentId |-> saUser[r]] @@ ParseSubmission(saBody[r])
           stored == InsertSubmission(submissions, values, Len(submissions) + 1, clock)
       IN IF ForeignKeyHolds(users, values.agentId) /\ ServiceTypeCheckHolds(values)
          THEN /\ submissions' = stored
               /\ StandaloneRespond(r, 200, stored[Len(stored)])
          ELSE /\ StandaloneRespond(r, 500, NoBody)
               /\ UNCHANGED submissions
    /\ UNCHANGED <<clock, standaloneFrame>>

\* select count(distinct agent_id) from submissions
DistinctAgents(table) == Cardinality({table[i].agentId : i \in Indices(table)})

\* The result of the COUNT query /api/stats awaits at `step`.
StandaloneCount(step, table, now) ==
    CASE step = "total" -> Len(table)
      [] step = "feeding" -> Len(SelectSeq(table, LAMBDA s : s.serviceType = "feeding"))
      [] step = "maintenance" ->
            Len(SelectSeq(table, LAMBDA s : s.serviceType = "maintenance"))
      [] step = "todayCount" ->
            Len(SelectSeq(table, LAMBDA s : StartOfDay(s.createdAt) = StartOfDay(now)))
      [] OTHER -> DistinctAgents(table)

\* The five COUNT queries of /api/stats, in the order it awaits them.
StatsSteps == <<"total", "feeding", "maintenance", "todayCount", "activeAgents">>
StepAfter(step) ==
    LET i == CHOOSE j \in 1..Len(StatsSteps) : StatsSteps[j] = step
    IN IF i < Len(StatsSteps) THEN StatsSteps[i + 1] ELSE "respond"

\* GET /api/stats: one of its COUNT queries returns; after the last one the
\* five numbers are sent.
StandaloneStats(r) ==
    /\ saEp[r] = "stats"
    /\ \E i \in 1..Len(StatsSteps) : saPc[r] = StatsSteps[i]
    /\ LET counts == [saCounts[r] EXCEPT
                         ![saPc[r]] = StandaloneCount(saPc[r], submissions, clock)]
       IN IF StepAfter(saPc[r]) = "respond"
          THEN StandaloneRespond(r, 200, counts)
          ELSE /\ saCounts' = [saCounts EXCEPT ![r] = counts]
               /\ saPc' = [saPc EXCEPT ![r] = StepAfter(saPc[r])]
               /\ UNCHANGED <<saEp, saHeader, saUser, saBody, saVerified, saResponse>>
    /\ UNCHANGED <<submissions, clock, standaloneFrame>>

\* Time passes.
StandaloneTick ==
    /\ clock < MaxClock
    /\ clock' = clock + 1
    /\ UNCHANGED <<standaloneVars, submissions, standaloneFrame>>

StandaloneNext ==
    \/ \E r \in StandaloneReqs, e \in StandaloneEndpoints, h \in Headers,
          body \in StandaloneBodies : StandaloneReceive(r, e, h, body)
    \/ \E r \in StandaloneReqs : StandaloneVerify(r)
    \/ \E r \in StandaloneReqs : StandaloneThrows(r)
    \/ \E r \in StandaloneReqs : StandaloneListAll(r)
    \/ \E r \in StandaloneReqs : StandaloneListMine(r)
    \/ \E r \in StandaloneReqs : StandaloneCreate(r)
    \/ \E r \in StandaloneReqs : StandaloneStats(r)
    \/ StandaloneTick

\* The tables as an earlier run left them: u1 has a users row, u2 has none.
StandaloneDb ==
    /\ users = <<SeedUser>>
    /\ submissions \in {<<>>, <<SeedSubmission>>}

InitStandalone ==
    ServerIdle /\ StandaloneDb /\ AppInit /\ StandaloneInit /\ ClientOff /\ SessionInit

SpecStandalone == InitStandalone /\ [][StandaloneNext]_vars

\* ------------------------------------------------------ client AuthProvider

\* The one subject the browser signs in as.
ClientSubject == "u1"

\* tempUserData: the user built from the Supabase session, role 'agent'.
TempUserData == FallbackUser(ClientSubject)

\* The body of an ok /api/user/profile response: the directory's row.
BackendUser == [SeedUser EXCEPT !.role = backendRole]

\* updatedUserData
UpdatedUserData(backendUser, temp) ==
    [id |-> backendUser.id, email |-> backendUser.email,
     firstName |-> Or(backendUser.firstName, temp.firstName),
     lastName |-> Or(backendUser.lastName, temp.lastName),
     role |-> backendUser.role]

\* How many requests one syncWithBackend may issue.
AttemptLimit(build) == IF build = "retry" THEN maxAttempts ELSE 1

\* A loop that runs once more than maxAttempts allows.
AfterFailedAttemptOffByOne(attempts, limit) == IF attempts <= limit THEN "wait" ELSE "done"

\* After attempts++ : wait a second and retry while attempts < maxAttempts.
AfterFailedAttempt(attempts, limit) == IF attempts < limit THEN "wait" ELSE "done"

clientFrame == <<serverVars, appVars, standaloneVars, sessionVars>>

\* The sync slot the next fetchUserProfile call takes.
FreeSync == CHOOSE s \in Syncs : syncPc[s] = "idle" /\ \A q \in Syncs : q < s => syncPc[q] # "idle"

\* fetchUserProfile(session.user): setUser(tempUserData), setLoading(false),
\* and syncWithBackend() started up to its await getAccessToken().
FetchUserProfile ==
    /\ \E s \in Syncs : syncPc[s] = "idle"
    /\ clientUser' = TempUserData
    /\ loading' = FALSE
    /\ syncPc' = [syncPc EXCEPT ![FreeSync] = "getToken"]
    /\ signedOut' = FALSE
    /\ UNCHANGED <<syncAttempts, syncRequests, syncOk, managerSeen>>

\* The initial supabase.auth.getSession() resolves. The retrying build has
\* signed out globally before it asks.
InitialSession ==
    /\ ~initialChecked
    /\ signOutPc = "idle"
    /\ initialChecked' = TRUE
    /\ session' = IF clientBuild = "retry" THEN "none" ELSE session
    /\ IF session' = "active"
       THEN /\ supabaseUser' = ClientSubject
            /\ FetchUserProfile
       ELSE /\ supabaseUser' = "none"
            /\ loading' = FALSE
            /\ UNCHANGED <<clientUser, syncPc, syncAttempts, syncRequests, syncOk,
                           signedOut, managerSeen>>
    /\ UNCHANGED <<clientBuild, backendRole, isInitialLoad, timeoutFired, signOutPc,
                   clientFrame>>

\* loadingTimeout fires before the initial session check has cleared it.
LoadingTimeout ==
    /\ ~initialChecked /\ ~timeoutFired
    /\ timeoutFired' = TRUE
    /\ loading' = FALSE
    /\ clientUser' = NoUser
    /\ managerSeen' = FALSE
    /\ UNCHANGED <<clientBuild, session, backendRole, supabaseUser, isInitialLoad,
                   initialChecked, signOutPc, syncPc, syncAttempts, syncRequests, syncOk,
                   signedOut, clientFrame>>

\* onAuthStateChange: SIGNED_IN with a session (a sign-in, or the event
\* Supabase repeats for the session it has).
SignedIn ==
    /\ signOutPc = "idle"
    /\ session' = "active"
    /\ supabaseUser' = ClientSubject
    /\ FetchUserProfile
    /\ isInitialLoad' = FALSE
    /\ UNCHANGED <<clientBuild, backendRole, initialChecked, timeoutFired, signOutPc,
                   clientFrame>>

\* onAuthStateChange: TOKEN_REFRESHED with a session.
TokenRefreshed ==
    /\ session = "active"
    /\ supabaseUser' = ClientSubject
    /\ FetchUserProfile
    /\ UNCHANGED <<clientBuild, session, backendRole, isInitialLoad, initialChecked,
                   timeoutFired, signOutPc, clientFrame>>

\* onAuthStateChange: SIGNED_OUT (the session expired or was revoked elsewhere).
SignedOut ==
    /\ session = "active"
    /\ signOutPc = "idle"
    /\ session' = "none"
    /\ supabaseUser' = "none"
    /\ clientUser' = NoUser
    /\ loading' = FALSE
    /\ isInitialLoad' = TRUE
    /\ signedOut' = TRUE
    /\ managerSeen' = FALSE
    /\ UNCHANGED <<clientBuild, backendRole, initialChecked, timeoutFired, signOutPc,
                   syncPc, syncAttempts, syncRequests, syncOk, clientFrame>>

\* signOut() up to await supabase.auth.signOut({scope: 'global'}).
SignOut ==
    /\ signOutPc = "idle"
    /\ clientUser # NoUser
    /\ clientUser' = NoUser
    /\ supabaseUser' = "none"
    /\ loading' = FALSE
    /\ signOutPc' = "awaiting"
    /\ signedOut' = TRUE
    /\ managerSeen' = FALSE
    /\ UNCHANGED <<clientBuild, session, backendRole, isInitialLoad, initialChecked,
                   timeoutFired, syncPc, syncAttempts, syncRequests, syncOk, clientFrame>>

\* supabase.auth.signOut returns: the session is gone, the SIGNED_OUT handler
\* runs, and the reload is scheduled 100 ms ahead.
SignOutReturns ==
    /\ signOutPc = "awaiting"
    /\ session' = "none"
    /\ supabaseUser' = "none"
    /\ clientUser' = NoUser
    /\ loading' = FALSE
    /\ isInitialLoad' = TRUE
    /\ signOutPc' = "reloadPending"
    /\ signedOut' = TRUE
    /\ managerSeen' = FALSE
    /\ UNCHANGED <<clientBuild, backendRole, initialChecked, timeoutFired, syncPc,
                   syncAttempts, syncRequests, syncOk, clientFrame>>

\* window.location.href = window.location.origin: the page loads anew, after
\* the 100 ms or at once when supabase.auth.signOut threw.
Reload ==
    /\ signOutPc \in {"awaiting", "reloadPending"}
    /\ session' = "none"
    /\ clientUser' = NoUser
    /\ supabaseUser' = "none"
    /\ loading' = TRUE
    /\ isInitialLoad' = TRUE
    /\ initialChecked' = FALSE
    /\ timeoutFired' = FALSE
    /\ signOutPc' = "idle"
    /\ syncPc' = [s \in Syncs |-> "idle"]
    /\ syncAttempts' = [s \in Syncs |-> 0]
    /\ syncRequests' = [s \in Syncs |-> 0]
    /\ syncOk' = [s \in Syncs |-> FALSE]
    /\ signedOut' = TRUE
    /\ managerSeen' = FALSE
    /\ UNCHANGED <<clientBuild, backendRole, clientFrame>>

\* syncWithBackend: await getAccessToken() returns; with a token the first
\* fetch('/api/user/profile') is issued, without one the sync ends.
SyncGetToken(s) ==
    /\ syncPc[s] = "getToken"
    /\ IF session = "active"
       THEN /\ syncPc' = [syncPc EXCEPT ![s] = "fetch"]
            /\ syncRequests' = [syncRequests EXCEPT ![s] = @ + 1]
       ELSE /\ syncPc' = [syncPc EXCEPT ![s] = "done"]
            /\ UNCHANGED syncRequests
    /\ UNCHANGED <<clientBuild, session, backendRole, clientUser, supabaseUser, loading,
                   isInitialLoad, initialChecked, timeoutFired, signOutPc, syncAttempts,
                   syncOk, signedOut, managerSeen, clientFrame>>

\* The fetch settles. response.ok: setUser(updatedUserData) and the sync is
\* over. Otherwise (a status that is not ok, or a network error) attempts++
\* and the sync waits for its next attempt or gives up.
SyncResponse(s, ok) ==
    /\ syncPc[s] = "fetch"
    /\ IF ok
       THEN /\ clientUser' = UpdatedUserData(BackendUser, TempUserData)
            /\ syncOk' = [syncOk EXCEPT ![s] = TRUE]
            /\ syncPc' = [syncPc EXCEPT ![s] = "done"]
            /\ managerSeen' = (BackendUser.role = "manager")
            /\ UNCHANGED syncAttempts
       ELSE /\ syncAttempts' = [syncAttempts EXCEPT ![s] = @ + 1]
            /\ syncPc' = [syncPc EXCEPT ![s] =
                    AfterFailedAttempt(syncAttempts[s] + 1, AttemptLimit(clientBuild))]
            /\ UNCHANGED <<clientUser, syncOk, managerSeen>>
    /\ UNCHANGED <<clientBuild, session, backendRole, supabaseUser, loading, isInitialLoad,
                   initialChecked, timeoutFired, signOutPc, syncRequests, signedOut,
                   clientFrame>>

\* The one-second wait is over: the next fetch is issued.
SyncRetry(s) ==
    /\ syncPc[s] = "wait"
    /\ syncPc' = [syncPc EXCEPT ![s] = "fetch"]
    /\ syncRequests' = [syncRequests EXCEPT ![s] = @ + 1]
    /\ UNCHANGED <<clientBuild, session, backendRole, clientUser, supabaseUser, loading,
                   isInitialLoad, initialChecked, timeoutFired, signOutPc, syncAttempts,
                   syncOk, signedOut, managerSeen, clientFrame>>

\* The steps of one syncWithBackend(); each of its awaits settles.
SyncStep(s) ==
    \/ SyncGetToken(s)
    \/ \E ok \in BOOLEAN : SyncResponse(s, ok)
    \/ SyncRetry(s)

ClientNext ==
    \/ InitialSession
    \/ LoadingTimeout
    \/ SignedIn
    \/ TokenRefreshed
    \/ SignedOut
    \/ SignOut
    \/ SignOutReturns
    \/ Reload
    \/ \E s \in Syncs : SyncStep(s)

\* The page loads.
InitClient == ServerOff /\ AppInit /\ StandaloneInit /\ ClientInit /\ SessionInit

SpecClient ==
    /\ InitClient
    /\ [][ClientNext]_vars
    /\ \A s \in Syncs : WF_vars(SyncStep(s))

\* ------------------------------------------ session-based authenticateToken

\* What a request's session holds: none (req.isAuthenticated() is false),
\* a user without usable claims, or the claims of a subject.
SessionKinds == {"anonymous", "noClaims"} \cup Ids

sessionFrame ==
    <<appVars, standaloneVars, clientVars, variant, bootVars, submissions, clock, reqVars,
      histVars, response>>

\* return res.status(401).json({error})
SessionReject(r, error) ==
    /\ sessPc' = [sessPc EXCEPT ![r] = "done"]
    /\ sessAnswer' = [sessAnswer EXCEPT ![r] = Unauthorized(error)]
    /\ UNCHANGED sessUser

\* req.user = {...dbUser}; next()
SessionNext(r, row) ==
    /\ sessPc' = [sessPc EXCEPT ![r] = "done"]
    /\ sessUser' = [sessUser EXCEPT ![r] = AttachedUser(row)]
    /\ sessAnswer' = [sessAnswer EXCEPT ![r] = CalledNext]

\* The request arrives: the session and claims checks, up to the await of
\* db.query.users.findFirst.
SessionReceive(r, kind) ==
    /\ sessPc[r] = "idle"
    /\ \A q \in SessionReqs : q < r => sessPc[q] # "idle"
    /\ IF kind = "anonymous"
       THEN SessionReject(r, "Authentication required") /\ UNCHANGED sessSub
       ELSE IF kind = "noClaims"
       THEN SessionReject(r, "Invalid session") /\ UNCHANGED sessSub
       ELSE /\ sessSub' = [sessSub EXCEPT ![r] = kind]
            /\ sessPc' = [sessPc EXCEPT ![r] = "findFirst"]
            /\ UNCHANGED <<sessUser, sessAnswer>>
    /\ UNCHANGED <<sessDbDown, users, sessionFrame>>

\* findFirst returns: with a row the user is attached, without one the insert
\* is awaited.
SessionFindFirst(r) ==
    /\ sessPc[r] = "findFirst"
    /\ LET row == GetUserRow(users, sessSub[r]) IN
       IF row = NoUser
       THEN /\ sessPc' = [sessPc EXCEPT ![r] = "insert"]
            /\ UNCHANGED <<sessUser, sessAnswer>>
       ELSE SessionNext(r, row)
    /\ UNCHANGED <<sessSub, sessDbDown, users, sessionFrame>>

\* users.id is the primary key: a plain insert of an id the table holds throws.
PrimaryKeyFree(table, id) == \A i \in Indices(table) : table[i].id # id

\* db.insert(users).values({...}).returning() returns or throws; the catch
\* answers 401 'Authentication failed'.
SessionInsert(r) ==
    /\ sessPc[r] = "insert"
    /\ IF PrimaryKeyFree(users, sessSub[r])
       THEN /\ users' = Append(users, NewUserData(sessSub[r]))
            /\ SessionNext(r, NewUserData(sessSub[r]))
       ELSE /\ SessionReject(r, "Authentication failed")
            /\ UNCHANGED users
    /\ UNCHANGED <<sessSub, sessDbDown, sessionFrame>>

\* A query rejects because the database cannot be reached: the same catch.
SessionThrows(r) ==
    /\ sessPc[r] \in {"findFirst", "insert"}
    /\ SessionReject(r, "Authentication failed")
    /\ sessDbDown' = [sessDbDown EXCEPT ![r] = TRUE]
    /\ UNCHANGED <<sessSub, users, sessionFrame>>

SessionAuthNext ==
    \/ \E r \in SessionReqs, kind \in SessionKinds : SessionReceive(r, kind)
    \/ \E r \in SessionReqs : SessionFindFirst(r)
    \/ \E r \in SessionReqs : SessionInsert(r)
    \/ \E r \in SessionReqs : SessionThrows(r)

\* The users table empty, or with u1 known from an earlier login.
SessionDb ==
    /\ users \in {<<>>, <<SeedUser>>}
    /\ submissions = <<>>

InitSession ==
    ServerIdle /\ SessionDb /\ AppInit /\ StandaloneInit /\ ClientOff /\ SessionInit

SpecSession == InitSession /\ [][SessionAuthNext]_vars

\* ------------------------------------------------------- specification

Next ==
    \/ \E r \in Reqs, e \in Endpoints, h \in BearerHeaders : Receive(r, e, h)
    \/ \E r \in Reqs : Verify(r)
    \/ \E r \in Reqs : VerifyUnavailable(r)
    \/ \E r \in Reqs : GetUser(r)
    \/ \E r \in Reqs : GetUserFails(r)
    \/ \E r \in Reqs : UpsertUserStep(r)
    \/ \E r \in Reqs : UpsertUserFails(r)
    \/ \E r \in Reqs : RequireManager(r)
    \/ \E r \in Reqs : HandleProfile(r)
    \/ \E r \in Reqs, body \in Bodies : HandleCreate(r, body)
    \/ \E r \in Reqs : HandleListAll(r)
    \/ \E r \in Reqs : HandleListMine(r)
    \/ \E r \in Reqs : HandleStats(r)
    \/ \E r \in Reqs : HandleActiveAgents(r)
    \/ \E r \in Reqs : HandlerDbFails(r)
    \/ \E u \in Ids, role \in Roles : UpdateUserRole(u, role)
    \/ Tick

Spec == Init /\ [][Next]_vars

\* The user directory on its own: logins (on the profile route), the demo-user
\* route and the administrator's role changes.
DirectoryNext ==
    \/ \E r \in Reqs, h \in Headers : Receive(r, "profile", h)
    \/ \E r \in Reqs : Verify(r)
    \/ \E r \in Reqs : VerifyUnavailable(r)
    \/ \E r \in Reqs : GetUser(r)
    \/ \E r \in Reqs : GetUserFails(r)
    \/ \E r \in Reqs : UpsertUserStep(r)
    \/ \E r \in Reqs : UpsertUserFails(r)
    \/ \E r \in Reqs : HandleProfile(r)
    \/ CreateDemoUser
    \/ CreateDemoUserFails
    \/ \E u \in Subjects, role \in Roles : UpdateUserRole(u, role)

SpecDirectory == Init /\ [][DirectoryNext]_vars

\* The requests of the profile route with every await of authenticateToken and
\* of storage.getUser a step of its own, and a provider that may never answer.
\* The event loop runs every continuation whose awaited call has settled: each
\* request's next step is taken if it stays possible.
RequestStep(r) ==
    \/ Verify(r)
    \/ VerifyUnavailable(r)
    \/ ProviderHangs(r)
    \/ GetUserPrimaryFails(r)
    \/ GetUser(r)
    \/ GetUserFails(r)
    \/ UpsertUserStep(r)
    \/ UpsertUserFails(r)
    \/ HandleProfile(r)

LiveNext ==
    \/ \E r \in Reqs, h \in BearerHeaders : Receive(r, "profile", h)
    \/ \E r \in Reqs : RequestStep(r)

SpecLive == Init /\ [][LiveNext]_vars /\ \A r \in Reqs : WF_vars(RequestStep(r))

\* The process from its start, under every configuration, serving the profile
\* route.
BootNext ==
    \/ Startup
    \/ LiveNext

SpecBoot == BootInit /\ [][BootNext]_vars

\* The requests of the profile route with the database-operation timeout firing
\* while a storage call is pending.
TimeoutNext ==
    \/ LiveNext
    \/ \E r \in Reqs : TimeoutFires(r)
    \/ \E r \in Reqs : LateGetUser(r)
    \/ \E r \in Reqs : LateUpsertUser(r)
    \/ \E r \in Reqs : LateUpsertUserFails(r)

SpecTimeout == Init /\ [][TimeoutNext]_vars

\* --------------------------------------------------------------- claims

\* Positions of a request whose authenticateToken has called next().
Authenticated == {"requireManager", "handler", "activeAgents"}

RowsOf(u) == {i \in Indices(users) : users[i].id = u}

\* C1: a user's stored role is the role the most recent updateUserRole for that
\* user set (agent when there was none); no authenticateToken step changes it.
C1_RoleIsLastRoleSet ==
    \A i \in Indices(users) :
        users[i].role = IF lastRole[users[i].id] = "none"
                        THEN "agent"
                        ELSE lastRole[users[i].id]

\* C2: however many first logins of one subject id run concurrently, the users
\* table never holds two rows with that id; once one of them has its upsert
\* answered there is exactly one row; and, without any updateUserRole for the
\* id, its role is agent.
C2_OneAgentRowPerSubject ==
    \A u \in Ids :
        /\ Cardinality(RowsOf(u)) <= 1
        /\ (\E r \in Reqs : ident[r] = u /\ pc[r] \in Authenticated /\ ~dirFailed[r])
              => Cardinality(RowsOf(u)) = 1
        /\ lastRole[u] = "none" => \A i \in RowsOf(u) : users[i].role = "agent"

\* Two requests of u2, which had no row, both took the !dbUser branch and both
\* had their upsert answered.
C2_Witness ==
    /\ \E r, q \in Reqs :
          /\ r # q
          /\ \A x \in {r, q} :
                ident[x] = "u2" /\ noRow[x] /\ pc[x] \in Authenticated /\ ~dirFailed[x]
    /\ Cardinality(RowsOf("u2")) = 1

\* C3: the handlers of GET /api/submissions and GET /api/stats run, and answer
\* with data, only for a request whose req.user has role manager; a request
\* resolved to role agent is answered 403 without data.
C3_ManagerOnly ==
    /\ \A r \in Reqs :
          ep[r] \in ManagerEndpoints /\ pc[r] \in {"handler", "activeAgents"}
              => reqUser[r].role = "manager"
    /\ \A r \in Reqs : stats[r] # NoBody => reqUser[r].role = "manager"
    /\ response.ep \in ManagerEndpoints /\ response.body # NoBody
          => response.user.role = "manager"
    /\ response.ep \in ManagerEndpoints /\ response.user.role = "agent"
          => response.status = 403 /\ response.body = NoBody

\* An agent asked for all submissions while the table held some, and got 403.
C3_Witness ==
    /\ response.ep = "listAll"
    /\ response.user.role = "agent"
    /\ response.status = 403
    /\ Len(submissions) > 0

\* C4: a request whose directory lookup or upsert failed is answered 503 at once:
\* it never goes on to requireManager or a handler.
C4_DirectoryFailureIs503 ==
    /\ \A r \in Reqs : ~dirFailed[r]
    /\ response.dirFailed => response.status = 503

\* The bodies C5 speaks of: clientName, government or atmCode missing or empty,
\* or serviceType outside {feeding, maintenance}.
MissingOrEmpty(body, key) == key \notin DOMAIN body \/ body[key] = ""
InvalidPayload(body) ==
    \/ MissingOrEmpty(body, "clientName")
    \/ MissingOrEmpty(body, "government")
    \/ MissingOrEmpty(body, "atmCode")
    \/ "serviceType" \notin DOMAIN body
    \/ body.serviceType \notin ServiceTypes

\* C5: POST /api/submissions with such a body, from a caller the directory
\* resolved, is answered 400 and stores nothing.
C5_InvalidPayloadRejected ==
    [][(response'.request # NoBody /\ ~response'.dirFailed
          /\ InvalidPayload(response'.request))
          => (response'.status = 400 /\ submissions' = submissions)]_vars

\* C6: a GET /api/submissions/my answered 200 lists every record an earlier
\* successful POST of the same caller was answered with, with the submitted field
\* values and the caller's id as agentId.
C6_CreatedThenListed ==
    (response.ep = "listMine" /\ response.status = 200) =>
        \A a \in acked :
            a.caller = response.caller =>
                \E i \in Indices(response.body.rows) :
                    /\ response.body.rows[i].id = a.id
                    /\ response.body.rows[i].agentId = a.caller
                    /\ response.body.rows[i].clientName = a.clientName
                    /\ response.body.rows[i].government = a.government
                    /\ response.body.rows[i].atmCode = a.atmCode
                    /\ response.body.rows[i].serviceType = a.serviceType

\* u1 listed its submissions after two of its POSTs had succeeded.
C6_Witness ==
    /\ response.ep = "listMine" /\ response.status = 200
    /\ Cardinality({a \in acked : a.caller = response.caller}) >= 2

\* C7: every stored submission carries the id of the user the creating request
\* was authenticated as, the id the database generated and the database time of
\* the insert, whatever the request body held under agentId, id or createdAt.
C7_ServerAssignedFields ==
    /\ Len(createLog) = Len(submissions)
    /\ \A i \in Indices(submissions) :
          /\ submissions[i].agentId = createLog[i].auth
          /\ submissions[i].id = createLog[i].gen
          /\ submissions[i].createdAt = createLog[i].at

\* The body carrying agentId, id and createdAt was stored by u1.
C7_Witness ==
    /\ response.request = BodyForged
    /\ response.status = 200
    /\ response.caller = "u1"
    /\ response.body.agentId = "u1"
    /\ submissions[Len(submissions)] = response.body

\* C8: no step changes or removes a stored submission.
C8_SubmissionsImmutable ==
    [][/\ Len(submissions') >= Len(submissions)
       /\ \A i \in Indices(submissions) : submissions'[i] = submissions[i]]_vars

\* After the seeded submission was stored: a role change, a login that created
\* a user and a further create have all run.
C8_Witness ==
    /\ Len(submissions) >= 2
    /\ submissions[1] = SeedSubmission
    /\ roleChanges > 0
    /\ Len(users) >= 2

\* C9: getSubmissionStats answers total = feeding + maintenance, total the
\* number of rows stored when it ran, and todayCount <= total.
C9_StatsAddUp ==
    [][\A r \in Reqs :
          (stats[r] = NoBody /\ stats'[r] # NoBody) =>
              /\ stats'[r].total = stats'[r].feeding + stats'[r].maintenance
              /\ stats'[r].total = Len(submissions)
              /\ stats'[r].todayCount <= stats'[r].total]_vars

\* Statistics over one feeding and one maintenance row, one of them of an
\* earlier day.
C9_Witness ==
    \E r \in Reqs :
        /\ stats[r] # NoBody
        /\ stats[r].total = 2
        /\ stats[r].feeding = 1
        /\ stats[r].maintenance = 1
        /\ stats[r].todayCount = 1

\* C10: GET /api/submissions/my answers with exactly the stored submissions whose
\* agentId is the caller's id, each once, in non-increasing createdAt order.
C10_ListMineExactAndOrdered ==
    (response.ep = "listMine" /\ response.status = 200) =>
        LET listed == response.body.rows IN
        /\ {listed[i] : i \in Indices(listed)} =
              {submissions[i] : i \in {j \in Indices(submissions) :
                                         submissions[j].agentId = response.caller}}
        /\ \A i, j \in Indices(listed) : i # j => listed[i] # listed[j]
        /\ \A i, j \in Indices(listed) : i < j => listed[i].createdAt >= listed[j].createdAt

\* u1 listed two submissions of different instants, the newer first.
C10_Witness ==
    /\ response.ep = "listMine" /\ response.status = 200
    /\ Len(response.body.rows) = 2
    /\ response.body.rows[1].createdAt > response.body.rows[2].createdAt

C12_AuthorisedWithNewRole ==
    \A r \in Reqs :
        (pc[r] \in Authenticated /\ startedAfter[r] /\ ~dirFailed[r])
            => reqUser[r].role = lastRole[ident[r]]

\* C13: a step that is not updateUserRole (so every upsertUser, whoever calls it)
\* leaves the role of every existing users row as it was.
C13_UpsertKeepsRole ==
    [][roleChanges' = roleChanges =>
          \A i \in Indices(users) :
              /\ users'[i].id = users[i].id
              /\ users'[i].role = users[i].role]_vars

\* C14: a request whose token the provider would accept can be answered at the
\* supabase.auth.getUser step only because the provider could not be reached;
\* that answer is 503.
C14_ProviderUnavailableIs503 ==
    [][\A r \in Reqs :
          (pc[r] = "verify" /\ ident[r] \in Ids /\ pc'[r] = "done")
              => response'.status = 503]_vars

\* C15: only a request whose Authorization header is 'Bearer <token>' gets past
\* the header check to the identity-provider call and the database calls after
\* it.
C15_OnlyBearerIsVerified ==
    \A r \in Reqs :
        pc[r] \notin {"idle", "done"}
            => /\ Len(authHeader[r]) = 2
               /\ authHeader[r][1] = "Bearer"
               /\ authHeader[r][2] # ""

\* C16: every request that authenticateToken has passed to the identity provider
\* is eventually answered.
C16_EventuallyAnswered ==
    \A r \in Reqs : (pc[r] = "verify") ~> (pc[r] = "done")

\* C17: no invocation of storage.getUser issues its query a second time.
C17_OneAttemptPerOperation ==
    \A r \in Reqs : pc[r] # "getUserFresh"

\* C18: every row GET /api/submissions answers carries, as agentName, the owner's
\* first and last name joined by a space (the one that is present when only one
\* is), and "Unknown" when the owner has neither.
C18_AgentNameOrUnknown ==
    (response.ep = "listAll" /\ response.status = 200) =>
        \A i \in Indices(response.body.rows) :
            LET row == response.body.rows[i] IN
            row.agentName =
                IF row.firstName = "" /\ row.lastName = ""
                THEN "Unknown"
                ELSE IF row.firstName # "" /\ row.lastName # ""
                     THEN row.firstName \o " " \o row.lastName
                     ELSE Or(row.firstName, row.lastName)

\* C19: the server listens only when a database connection string is set.
C19_NoListeningWithoutDatabaseUrl ==
    server = "listening" => dbUrlSet

\* C20: in the build with the database-operation timeout, the step in which the
\* timeout fires during storage.getUser or storage.upsertUser answers 503 to that
\* request; from then on the request's req.user is never set, it never reaches
\* requireManager or a handler, the step in which the storage call settles
\* sends no response, and an answered request takes no further step.
C20_TimeoutAnswers503Once ==
    [][\A r \in Reqs :
          /\ (pc[r] \notin Late /\ pc'[r] \in Late)
                => /\ response'.status = 503
                   /\ response'.caller = ident[r]
                   /\ response'.body = NoBody
          /\ pc[r] \in Late
                => /\ pc'[r] \in Late \cup {"done"}
                   /\ reqUser'[r] = NoUser
                   /\ (pc'[r] # pc[r] => response' = NoResponse)
          /\ pc[r] = "done" => pc'[r] = "done"]_vars

\* The timeout fired on u2's first login while its upsert was pending: the 503 is
\* out, the upsert still runs and u2 has no row yet.
C20_Witness ==
    \E r \in Reqs :
        /\ variant = "timeout"
        /\ pc[r] = "lateUpsertUser"
        /\ ident[r] = "u2"
        /\ noRow[r]
        /\ GetUserRow(users, "u2") = NoUser
        /\ response.status = 503
        /\ response.caller = "u2"

\* C21: across concurrent getApp() calls the initialisation body is entered at
\* most once and all calls that have returned hold the same app instance.
C21_InitialisedOnce ==
    /\ initRuns <= 1
    /\ \A c, d \in Calls :
          (callResult[c] # NoApp /\ callResult[d] # NoApp)
              => callResult[c] = callResult[d]

\* C30: once the error app is cached it stays cached: no step replaces it or
\* enters the initialisation body again, every getApp() call made from then
\* on returns it, and a request handed to an error app is answered 500
\* "Server initialization failed".
C30_ErrorAppStaysCached ==
    [][initializedApp.kind = "errorApp" =>
          /\ initializedApp' = initializedApp
          /\ initRuns' = initRuns
          /\ \A c \in Calls :
                (callPc[c] = "idle" /\ callPc'[c] # "idle")
                    => callResult'[c] = initializedApp
          /\ \A c \in Calls :
                (callPc[c] = "returned" /\ callPc'[c] = "answered"
                    /\ callResult[c].kind = "errorApp")
                    => callAnswer'[c] = InitializationFailed]_vars

\* C22: when authenticateToken's upsertUser returns for an identity that has a
\* users row, that row keeps its id, email and role, and keeps a name field
\* for which the provider's claims carry no value; no other row changes.
C22_RefreshWritesOnlyProfile ==
    [][\A r \in Reqs :
          (pc[r] = "upsertUser" /\ pc'[r] # "upsertUser" /\ RowsOf(ident[r]) # {})
              => \A i \in Indices(users) :
                    /\ users'[i].id = users[i].id
                    /\ users'[i].email = users[i].email
                    /\ users'[i].role = users[i].role
                    /\ (users[i].id # ident[r] \/ MetaFirstName(ident[r]) = "")
                          => users'[i].firstName = users[i].firstName
                    /\ (users[i].id # ident[r] \/ MetaLastName(ident[r]) = "")
                          => users'[i].lastName = users[i].lastName]_vars

\* C27: every stored submission's agentId is the id of a users row, before and
\* after every step; and the create handler of a request that carries the
\* fallback identity of a subject without a users row stores nothing.
C27_SubmissionsHaveStoredAgents ==
    [][/\ \A i \in Indices(submissions) : RowsOf(submissions[i].agentId) # {}
       /\ \A i \in Indices(submissions') :
             \E j \in Indices(users') : users'[j].id = submissions'[i].agentId
       /\ \A r \in Reqs :
             (/\ pc[r] = "handler" /\ ep[r] = "create" /\ pc'[r] = "done"
              /\ dirFailed[r] /\ RowsOf(ident[r]) = {})
                 => submissions' = submissions]_vars

\* A valid report of a subject without a users row, sent under the fallback
\* identity, was answered 500.
C27_Witness ==
    /\ response.ep = "create"
    /\ response.dirFailed
    /\ response.status = 500
    /\ SchemaAccepts(response.request)
    /\ RowsOf(response.caller) = {}

\* The endpoints of the standalone handler that return submission or
\* statistics data.
DataEndpoints == {"listAll", "listMine", "stats"}

\* C23: in the standalone handler a request to a data endpoint is at a
\* database query only after the provider accepted its token, and a request
\* whose header carries no token the provider accepts is answered 401 without
\* data.
C23_DataOnlyAfterVerification ==
    /\ \A r \in StandaloneReqs :
          (saEp[r] \in DataEndpoints /\ saPc[r] \notin {"idle", "verify", "done"})
              => saVerified[r]
    /\ (/\ saResponse.ep \in DataEndpoints
        /\ ~(StartsWithBearer(saResponse.header)
               /\ BearerToken(saResponse.header) \in Ids))
          => saResponse.status = 401 /\ saResponse.body = NoBody

\* C25: the numbers of a /api/stats response of the standalone handler add
\* up: total = feeding + maintenance and todayCount <= total.
C25_StandaloneStatsAddUp ==
    (saResponse.ep = "stats" /\ saResponse.status = 200)
        => /\ saResponse.body.total = saResponse.body.feeding + saResponse.body.maintenance
           /\ saResponse.body.todayCount <= saResponse.body.total

C28_SignedOutStaysNull == signedOut => clientUser = NoUser

\* C29: once a profile response has set role manager, the user keeps role
\* manager through every later SIGNED_IN and TOKEN_REFRESHED, until the user
\* is cleared (the initial session load is not among the steps looked at).
C29_ManagerStays ==
    [][(managerSeen /\ managerSeen' /\ initialChecked' = initialChecked)
          => clientUser'.role = "manager"]_vars

\* C26: every request of the session-based authenticateToken that carries a
\* valid session and meets a reachable database ends in next() with the user
\* of its subject attached, also when it is one of several first requests of
\* that subject; none is answered 401.
C26_ConcurrentFirstLoginsPass ==
    \A r \in SessionReqs :
        (sessPc[r] = "done" /\ sessSub[r] \in Ids /\ ~sessDbDown[r])
            => sessAnswer[r] = CalledNext /\ sessUser[r].id = sessSub[r]

====
